---------------------------- MODULE Spec2Model ----------------------------
(***************************************************************************)
(* Model of the TodoApp backend (FastAPI): the auth endpoints               *)
(* (src/backend/src/api/auth.py), the token utilities                       *)
(* (src/backend/src/utils/jwt.py), the task endpoints                       *)
(* (src/backend/src/api/tasks.py) and the exception handlers wired in       *)
(* src/backend/src/main.py.                                                 *)
(*                                                                          *)
(* The store is the two tables (users, tasks) with their autoincrement      *)
(* sequences.  Every endpoint is one action that handles one whole request: *)
(* dependency resolution (HTTPBearer, get_current_user), the handler body,  *)
(* the commit, and the exception handler that renders a failure.  The       *)
(* variables request/response/log record the request handled by the latest  *)
(* step, the response it was given and the log records it emitted; issued   *)
(* is the set of tokens register and login have returned so far (what the   *)
(* clients hold), and inflight the requests that have run their check      *)
(* (register: the email; update, delete: the owner) and are suspended at an *)
(* await before their commit, where the handlers are modelled step by step. *)
(***************************************************************************)
EXTENDS Integers, Sequences, FiniteSets, TLC

VARIABLES users, user_seq, tasks, task_seq, now, request, response, log,
          issued, inflight

vars == <<users, user_seq, tasks, task_seq, now, request, response, log,
          issued, inflight>>

store == <<users, user_seq, tasks, task_seq>>

-----------------------------------------------------------------------------
(* Bounds of the model.                                                     *)

\* tasks ever created (ids 1..MaxTasks)
MaxTasks == 2
\* the clock runs 0..MaxTime
MaxTime == 1
\* tasks ever created under SpecTok (ids 1..MaxTokTasks)
MaxTokTasks == 1
\* register requests in flight at once under SpecReg
MaxRegistrations == 2
\* update and delete requests in flight at once under SpecRace
MaxInflight == 2

-----------------------------------------------------------------------------
(* Python values.  An Optional[T] is <<>> (None) or <<v>>.                  *)

None == <<>>

Some(v) == <<v>>

IsNone(o) == o = <<>>

Val(o) == o[1]

\* str(n) for the ids of the model, and int(s) as Python parses it: int()
\* accepts surrounding whitespace and leading zeros, anything else raises
\* ValueError (here: no result).
DecimalText == <<"1", "2", "3", "4">>

str(n) == DecimalText[n]

IntLiterals ==
    { <<DecimalText[n], n>> : n \in 1..Len(DecimalText) }
        \cup { <<"01", 1>>, <<" 2 ", 2>> }

IsIntLiteral(s) == \E p \in IntLiterals : p[1] = s

int(s) == (CHOOSE p \in IntLiterals : p[1] = s)[2]

-----------------------------------------------------------------------------
(* Settings (src/backend/src/config.py).                                    *)

JWT_SECRET == "JWT_SECRET"

JWT_ALGORITHM == "HS256"

JWT_EXPIRATION_HOURS == 24

-----------------------------------------------------------------------------
(* python-jose as utils/jwt.py calls it.  A token is the signed string; the *)
(* model keeps what the string determines: whether it has the three-segment *)
(* JWS shape, the header's alg, the key that produced the signature, and    *)
(* the claims.  A claim "sub" is absent, a JSON string or a JSON number.    *)

NoSub == [typ |-> "absent", text |-> ""]

StrSub(s) == [typ |-> "str", text |-> s]

IntSub(n) == [typ |-> "int", text |-> str(n)]

jwt_encode(claims, key, algorithm) ==
    [form |-> "jws", alg |-> algorithm, key |-> key, claims |-> claims]

GarbageToken ==
    [form |-> "garbage", alg |-> "", key |-> "", claims |-> [sub |-> NoSub, exp |-> None]]

\* variants of jwt_decode: expiry tested with <= ; and the header's alg not
\* tested against the allowed algorithms
jwt_decode_expired_at_exp(token, key, algorithms, t) ==
    IF token.form # "jws" THEN [raised |-> "JWTError"]
    ELSE IF token.alg \notin algorithms THEN [raised |-> "JWTError"]
    ELSE IF token.key # key THEN [raised |-> "JWTError"]
    ELSE IF ~IsNone(token.claims.exp) /\ Val(token.claims.exp) <= t
         THEN [raised |-> "ExpiredSignatureError"]
    ELSE IF token.claims.sub.typ = "int" THEN [raised |-> "JWTClaimsError"]
    ELSE [raised |-> "", payload |-> token.claims]

jwt_decode_any_alg(token, key, algorithms, t) ==
    IF token.form # "jws" THEN [raised |-> "JWTError"]
    ELSE IF token.key # key THEN [raised |-> "JWTError"]
    ELSE IF ~IsNone(token.claims.exp) /\ Val(token.claims.exp) < t
         THEN [raised |-> "ExpiredSignatureError"]
    ELSE IF token.claims.sub.typ = "int" THEN [raised |-> "JWTClaimsError"]
    ELSE [raised |-> "", payload |-> token.claims]

\* jose.jwt.decode: the JWS layer first (shape, allowed alg, signature), then
\* the claims in the library's order (exp before sub).  exp is compared in
\* whole seconds with no leeway: expired iff exp < now.
jwt_decode(token, key, algorithms, t) ==
    IF token.form # "jws" THEN [raised |-> "JWTError"]
    ELSE IF token.alg \notin algorithms THEN [raised |-> "JWTError"]
    ELSE IF token.key # key THEN [raised |-> "JWTError"]
    ELSE IF ~IsNone(token.claims.exp) /\ Val(token.claims.exp) < t
         THEN [raised |-> "ExpiredSignatureError"]
    ELSE IF token.claims.sub.typ = "int" THEN [raised |-> "JWTClaimsError"]
    ELSE [raised |-> "", payload |-> token.claims]

-----------------------------------------------------------------------------
(* utils/jwt.py                                                             *)

HTTPException(status_code, detail) ==
    [kind |-> "HTTPException", status_code |-> status_code, detail |-> detail]

\* expires_delta is an Optional number of clock units; `if expires_delta:`
\* is Python truthiness, so None and a zero delta both take the else branch.
create_access_token(data, expires_delta, t) ==
    LET expire == IF ~IsNone(expires_delta) /\ Val(expires_delta) # 0
                  THEN t + Val(expires_delta)
                  ELSE t + JWT_EXPIRATION_HOURS
    IN  jwt_encode([sub |-> data.sub, exp |-> Some(expire)], JWT_SECRET, JWT_ALGORITHM)

\* the variant: no except clause for ExpiredSignatureError, which is a JWTError
decode_token_one_kind(token, t) ==
    LET r == jwt_decode(token, JWT_SECRET, {JWT_ALGORITHM}, t) IN
    IF r.raised = "" THEN [ok |-> TRUE, payload |-> r.payload, log |-> <<>>]
    ELSE IF r.raised = "JWTClaimsError" THEN
        [ok |-> FALSE, exc |-> HTTPException(401, "Invalid token claims"),
         log |-> << [level |-> "warning", event |-> "token_invalid_claims",
                     type |-> "JWTClaimsError"] >>]
    ELSE
        [ok |-> FALSE, exc |-> HTTPException(401, "Invalid token"),
         log |-> << [level |-> "warning", event |-> "token_invalid",
                     type |-> r.raised] >>]

\* Result: [ok, payload, log] or [ok, exc, log].
decode_token(token, t) ==
    LET r == jwt_decode(token, JWT_SECRET, {JWT_ALGORITHM}, t) IN
    IF r.raised = "" THEN [ok |-> TRUE, payload |-> r.payload, log |-> <<>>]
    ELSE IF r.raised = "ExpiredSignatureError" THEN
        [ok |-> FALSE, exc |-> HTTPException(401, "Token has expired"),
         log |-> << [level |-> "warning", event |-> "token_expired"] >>]
    ELSE IF r.raised = "JWTClaimsError" THEN
        [ok |-> FALSE, exc |-> HTTPException(401, "Invalid token claims"),
         log |-> << [level |-> "warning", event |-> "token_invalid_claims",
                     type |-> "JWTClaimsError"] >>]
    ELSE
        [ok |-> FALSE, exc |-> HTTPException(401, "Invalid token"),
         log |-> << [level |-> "warning", event |-> "token_invalid",
                     type |-> r.raised] >>]

\* the variant: a missing credential answered 401
HTTPBearer_unauthorized(authorization) ==
    IF IsNone(authorization) \/ IsNone(Val(authorization).credentials)
    THEN [ok |-> FALSE, exc |-> HTTPException(401, "Not authenticated")]
    ELSE IF Val(authorization).scheme # "Bearer"
    THEN [ok |-> FALSE, exc |-> HTTPException(401, "Invalid authentication credentials")]
    ELSE [ok |-> TRUE, credentials |-> Val(Val(authorization).credentials)]

\* security = HTTPBearer(): the dependency that extracts the credential.  With
\* no Authorization header (None), or one that is not "Bearer <token>", it
\* raises 403 itself and get_current_user's body never runs.
\* The header is None or <<[scheme, credentials]>>, credentials being None for
\* a header that carries a scheme and nothing after it.
HTTPBearer(authorization) ==
    IF IsNone(authorization) \/ IsNone(Val(authorization).credentials)
    THEN [ok |-> FALSE, exc |-> HTTPException(403, "Not authenticated")]
    ELSE IF Val(authorization).scheme # "Bearer"
    THEN [ok |-> FALSE, exc |-> HTTPException(403, "Invalid authentication credentials")]
    ELSE [ok |-> TRUE, credentials |-> Val(Val(authorization).credentials)]

\* variants of get_current_user: without the `user_id is None` test, so that
\* int(None) raises TypeError; and without the query of the users table, the
\* token's subject taken as the user
get_current_user_no_sub_check(authorization, us, t) ==
    LET cred == HTTPBearer(authorization) IN
    IF ~cred.ok THEN
        [ok |-> FALSE, exc |-> cred.exc, log |-> <<>>,
         decoded |-> FALSE, looked_up |-> FALSE]
    ELSE
    LET d == decode_token(cred.credentials, t) IN
    IF ~d.ok THEN
        [ok |-> FALSE, exc |-> d.exc, log |-> d.log,
         decoded |-> TRUE, looked_up |-> FALSE]
    ELSE
    LET user_id == d.payload.sub IN
    IF user_id.typ = "absent" THEN
        [ok |-> FALSE, exc |-> [kind |-> "TypeError"],
         log |-> <<>>, decoded |-> TRUE, looked_up |-> FALSE]
    ELSE IF ~IsIntLiteral(user_id.text) THEN
        [ok |-> FALSE, exc |-> [kind |-> "ValueError"],
         log |-> <<>>, decoded |-> TRUE, looked_up |-> FALSE]
    ELSE
    LET found == { u \in us : u.id = int(user_id.text) } IN
    IF found = {} THEN
        [ok |-> FALSE, exc |-> HTTPException(401, "User not found"),
         log |-> <<>>, decoded |-> TRUE, looked_up |-> TRUE]
    ELSE
        [ok |-> TRUE, user |-> CHOOSE u \in found : TRUE, log |-> <<>>,
         decoded |-> TRUE, looked_up |-> TRUE]

get_current_user_trusting_token(authorization, us, t) ==
    LET cred == HTTPBearer(authorization) IN
    IF ~cred.ok THEN
        [ok |-> FALSE, exc |-> cred.exc, log |-> <<>>,
         decoded |-> FALSE, looked_up |-> FALSE]
    ELSE
    LET d == decode_token(cred.credentials, t) IN
    IF ~d.ok THEN
        [ok |-> FALSE, exc |-> d.exc, log |-> d.log,
         decoded |-> TRUE, looked_up |-> FALSE]
    ELSE
    LET user_id == d.payload.sub IN
    IF user_id.typ = "absent" THEN
        [ok |-> FALSE, exc |-> HTTPException(401, "Could not validate credentials"),
         log |-> <<>>, decoded |-> TRUE, looked_up |-> FALSE]
    ELSE IF ~IsIntLiteral(user_id.text) THEN
        [ok |-> FALSE, exc |-> [kind |-> "ValueError"],
         log |-> <<>>, decoded |-> TRUE, looked_up |-> FALSE]
    ELSE
        [ok |-> TRUE, user |-> [id |-> int(user_id.text)], log |-> <<>>,
         decoded |-> TRUE, looked_up |-> FALSE]

\* Result: [ok |-> TRUE, user, ...] or [ok |-> FALSE, exc, ...]; exc is an
\* HTTPException or, when int(user_id) raises, a ValueError.  decoded and
\* looked_up record whether decode_token ran and whether the users table was
\* queried.
get_current_user(authorization, us, t) ==
    LET cred == HTTPBearer(authorization) IN
    IF ~cred.ok THEN
        [ok |-> FALSE, exc |-> cred.exc, log |-> <<>>,
         decoded |-> FALSE, looked_up |-> FALSE]
    ELSE
    LET d == decode_token(cred.credentials, t) IN
    IF ~d.ok THEN
        [ok |-> FALSE, exc |-> d.exc, log |-> d.log,
         decoded |-> TRUE, looked_up |-> FALSE]
    ELSE
    LET user_id == d.payload.sub IN
    IF user_id.typ = "absent" THEN
        [ok |-> FALSE, exc |-> HTTPException(401, "Could not validate credentials"),
         log |-> <<>>, decoded |-> TRUE, looked_up |-> FALSE]
    ELSE IF ~IsIntLiteral(user_id.text) THEN
        [ok |-> FALSE, exc |-> [kind |-> "ValueError"],
         log |-> <<>>, decoded |-> TRUE, looked_up |-> FALSE]
    ELSE
    LET found == { u \in us : u.id = int(user_id.text) } IN
    IF found = {} THEN
        [ok |-> FALSE, exc |-> HTTPException(401, "User not found"),
         log |-> <<>>, decoded |-> TRUE, looked_up |-> TRUE]
    ELSE
        [ok |-> TRUE, user |-> CHOOSE u \in found : TRUE, log |-> <<>>,
         decoded |-> TRUE, looked_up |-> TRUE]

-----------------------------------------------------------------------------
(* utils/sanitization.py and schemas/auth.py.  A raw email is the sequence  *)
(* of its characters.                                                       *)

LowerOf(c) ==
    CASE c = "A" -> "a"
      [] c = "B" -> "b"
      [] c = "X" -> "x"
      [] OTHER -> c

lower(s) == [i \in 1..Len(s) |-> LowerOf(s[i])]

RECURSIVE lstrip(_)
lstrip(s) == IF s # <<>> /\ Head(s) = " " THEN lstrip(Tail(s)) ELSE s

RECURSIVE rstrip(_)
rstrip(s) ==
    IF s # <<>> /\ s[Len(s)] = " " THEN rstrip(SubSeq(s, 1, Len(s) - 1)) ELSE s

strip(s) == rstrip(lstrip(s))

sanitize_email(email) ==
    IF email = <<>> THEN email ELSE lower(strip(email))

\* the variant: the schema without its validator
UserRegister_unsanitized(email, password) ==
    [email |-> email, password |-> password]

\* UserRegister / UserLogin: the "before" validator sanitizes the email.
UserRegister(email, password) ==
    [email |-> sanitize_email(email), password |-> password]

UserLogin(email, password) ==
    [email |-> sanitize_email(email), password |-> password]

\* utils/security.py: a one-way digest that verify_password checks.
hash_password(password) == <<"digest", password>>

verify_password(password, hashed) == hashed = hash_password(password)

-----------------------------------------------------------------------------
(* middleware/error_handler.py, as registered in main.py.                   *)

http_exception_handler(exc) ==
    [status_code |-> exc.status_code,
     content |-> [kind |-> "error",
                  error |-> [type |-> "http_error",
                             status_code |-> exc.status_code,
                             message |-> exc.detail]]]

general_exception_handler(exc) ==
    [status_code |-> 500,
     content |-> [kind |-> "error",
                  error |-> [type |-> "internal_error",
                             status_code |-> 500,
                             message |-> "An unexpected error occurred. Please try again later."]]]

\* one entry of details per error of the exception; field is the location
\* without "body", its parts joined by "."
validation_exception_handler(exc) ==
    [status_code |-> 422,
     content |-> [kind |-> "error",
                  error |-> [type |-> "validation_error",
                             status_code |-> 422,
                             message |-> "Validation failed",
                             details |-> [i \in DOMAIN exc.errors |->
                                 [field |-> SelectSeq(exc.errors[i].loc,
                                                      LAMBDA l : l # "body"),
                                  message |-> exc.errors[i].msg,
                                  type |-> exc.errors[i].type]]]]]

\* app.add_exception_handler(...): the handler chosen for a raised exception.
handle_exception(exc) ==
    IF exc.kind = "HTTPException" THEN http_exception_handler(exc)
    ELSE IF exc.kind = "RequestValidationError" THEN validation_exception_handler(exc)
    ELSE general_exception_handler(exc)

JSONResponse(status_code, content) ==
    [status_code |-> status_code, content |-> content]

-----------------------------------------------------------------------------
(* schemas                                                                  *)

UserResponse(user) ==
    [id |-> user.id, email |-> user.email, created_at |-> user.created_at]

AuthResponse(access_token, user) ==
    [kind |-> "auth", access_token |-> access_token, token_type |-> "bearer",
     user |-> UserResponse(user)]

TaskResponse(task) ==
    [id |-> task.id, user_id |-> task.user_id, title |-> task.title,
     description |-> task.description, is_completed |-> task.is_completed,
     created_at |-> task.created_at, updated_at |-> task.updated_at]

\* TaskCreate / TaskUpdate keep the declared fields of the JSON body and drop
\* every other key (a user_id or owner_id in the body is not a field).
TaskCreate(body) ==
    [title |-> body.title, description |-> body.description]

TaskUpdate(body) ==
    [title |-> body.title, description |-> body.description,
     is_completed |-> body.is_completed]

\* Task(...) as create_task constructs it; is_completed and the timestamps
\* take the model's defaults.
Task(id, user_id, title, description, t) ==
    [id |-> id, user_id |-> user_id, title |-> title, description |-> description,
     is_completed |-> FALSE, created_at |-> t, updated_at |-> t]

User(id, email, hashed_password, t) ==
    [id |-> id, email |-> email, hashed_password |-> hashed_password,
     created_at |-> t, updated_at |-> t]

-----------------------------------------------------------------------------
(* api/tasks.py.  Each handler is given the authenticated user and the      *)
(* tasks table and yields the response, the table after its commit (the     *)
(* same table when it raises) and the log records it emitted.               *)

\* select(Task).where(Task.id == task_id) ... scalar_one_or_none()
scalar_one_or_none(rows) ==
    IF rows = {} THEN None ELSE Some(CHOOSE r \in rows : TRUE)

select_task(ts, task_id) == scalar_one_or_none({ x \in ts : x.id = task_id })

\* the ownership test of get_task, update_task and delete_task; the variant
\* is the test left out
not_owner_unchecked(task, current_user) == FALSE

not_owner(task, current_user) == task.user_id # current_user.id

\* the variant: the warning without the owner of the task
authorization_failed_unnamed(current_user, verb, task_id, task) ==
    [level |-> "warning", event |-> "authorization_failed", verb |-> verb,
     user |-> current_user.id, task |-> task_id, owner |-> 0]

authorization_failed(current_user, verb, task_id, task) ==
    [level |-> "warning", event |-> "authorization_failed", verb |-> verb,
     user |-> current_user.id, task |-> task_id, owner |-> task.user_id]

raise(exc, ts, seq, lg) ==
    [response |-> handle_exception(exc), tasks |-> ts, task_seq |-> seq, log |-> lg]

\* the variant: the query without its where clause
select_all_tasks(ts, current_user) ==
    LET n == Cardinality(ts)
    IN  { q \in [1..n -> ts] :
            /\ \A i, j \in 1..n : i # j => q[i] # q[j]
            /\ \A i, j \in 1..n : i < j => q[i].created_at >= q[j].created_at }

\* select(Task).where(Task.user_id == current_user.id)
\*     .order_by(Task.created_at.desc()): every order of the user's rows that
\* is descending in created_at (rows with equal created_at come in any order).
select_user_tasks(ts, current_user) ==
    LET mine == { x \in ts : x.user_id = current_user.id }
        n == Cardinality(mine)
    IN  { q \in [1..n -> mine] :
            /\ \A i, j \in 1..n : i # j => q[i] # q[j]
            /\ \A i, j \in 1..n : i < j => q[i].created_at >= q[j].created_at }

\* the path parameter `task_id: int` of get_task, update_task and delete_task:
\* the path segment is parsed as an integer, and a segment that is none raises
\* RequestValidationError before the handler body runs.  The variant is the
\* parameter declared without a type: a segment that is no integer names no
\* row.
task_id_param_untyped(path) ==
    [ok |-> TRUE, value |-> IF IsIntLiteral(path) THEN int(path) ELSE 0]

task_id_param(path) ==
    IF IsIntLiteral(path)
    THEN [ok |-> TRUE, value |-> int(path)]
    ELSE [ok |-> FALSE,
          exc |-> [kind |-> "RequestValidationError",
                   errors |-> << [loc |-> <<"path", "task_id">>,
                                  msg |-> "Input should be a valid integer",
                                  type |-> "int_parsing"] >>]]

\* the set of results get_tasks can give (one per row order)
get_tasks(current_user, ts, seq) ==
    { [response |-> JSONResponse(200,
            [kind |-> "list",
             tasks |-> [i \in 1..Len(rows) |-> TaskResponse(rows[i])],
             total |-> Len(rows)]),
       tasks |-> ts, task_seq |-> seq, log |-> <<>>]
      : rows \in select_user_tasks(ts, current_user) }

create_task(task_data, current_user, ts, seq, t) ==
    LET new_task == Task(seq + 1, current_user.id, task_data.title,
                         task_data.description, t)
    IN  [response |-> JSONResponse(201, [kind |-> "task", task |-> TaskResponse(new_task)]),
         tasks |-> ts \cup {new_task},
         task_seq |-> seq + 1,
         log |-> << [level |-> "info", event |-> "creating_task",
                     user |-> current_user.id, title |-> task_data.title],
                    [level |-> "info", event |-> "task_created",
                     user |-> current_user.id, task |-> new_task.id] >>]

\* the variant: a task of another user is reported as absent
get_task_hiding_foreign(task_id, current_user, ts, seq) ==
    LET task == select_task(ts, task_id) IN
    IF IsNone(task) \/ not_owner(Val(task), current_user) THEN
        raise(HTTPException(404, "Task not found"), ts, seq, <<>>)
    ELSE
        [response |-> JSONResponse(200, [kind |-> "task", task |-> TaskResponse(Val(task))]),
         tasks |-> ts, task_seq |-> seq, log |-> <<>>]

get_task(task_id, current_user, ts, seq) ==
    LET task == select_task(ts, task_id) IN
    IF IsNone(task) THEN
        raise(HTTPException(404, "Task not found"), ts, seq, <<>>)
    ELSE IF not_owner(Val(task), current_user) THEN
        raise(HTTPException(403, "Not authorized to access this task"), ts, seq,
               << authorization_failed(current_user, "access", task_id, Val(task)) >>)
    ELSE
        [response |-> JSONResponse(200, [kind |-> "task", task |-> TaskResponse(Val(task))]),
         tasks |-> ts, task_seq |-> seq, log |-> <<>>]

\* the variant: the new values committed before the ownership test
update_task_checking_late(task_id, task_data, current_user, ts, seq, t) ==
    LET task == select_task(ts, task_id) IN
    IF IsNone(task) THEN
        raise(HTTPException(404, "Task not found"), ts, seq, <<>>)
    ELSE
        LET old == Val(task)
            updated ==
                [old EXCEPT
                    !.title = IF ~IsNone(task_data.title)
                              THEN Val(task_data.title) ELSE @,
                    !.description = IF ~IsNone(task_data.description)
                                    THEN task_data.description ELSE @,
                    !.is_completed = IF ~IsNone(task_data.is_completed)
                                     THEN Val(task_data.is_completed) ELSE @,
                    !.updated_at = t]
        IN  IF not_owner(old, current_user) THEN
                raise(HTTPException(403, "Not authorized to update this task"),
                      (ts \ {old}) \cup {updated}, seq,
                      << authorization_failed(current_user, "update", task_id, old) >>)
            ELSE
                [response |-> JSONResponse(200, [kind |-> "task", task |-> TaskResponse(updated)]),
                 tasks |-> (ts \ {old}) \cup {updated},
                 task_seq |-> seq,
                 log |-> << [level |-> "info", event |-> "updating_task",
                             user |-> current_user.id, task |-> task_id],
                            [level |-> "info", event |-> "task_updated",
                             user |-> current_user.id, task |-> task_id] >>]

update_task(task_id, task_data, current_user, ts, seq, t) ==
    LET task == select_task(ts, task_id) IN
    IF IsNone(task) THEN
        raise(HTTPException(404, "Task not found"), ts, seq, <<>>)
    ELSE IF not_owner(Val(task), current_user) THEN
        raise(HTTPException(403, "Not authorized to update this task"), ts, seq,
               << authorization_failed(current_user, "update", task_id, Val(task)) >>)
    ELSE
        LET old == Val(task)
            updated ==
                [old EXCEPT
                    !.title = IF ~IsNone(task_data.title)
                              THEN Val(task_data.title) ELSE @,
                    !.description = IF ~IsNone(task_data.description)
                                    THEN task_data.description ELSE @,
                    !.is_completed = IF ~IsNone(task_data.is_completed)
                                     THEN Val(task_data.is_completed) ELSE @,
                    !.updated_at = t]
        IN  [response |-> JSONResponse(200, [kind |-> "task", task |-> TaskResponse(updated)]),
             tasks |-> (ts \ {old}) \cup {updated},
             task_seq |-> seq,
             log |-> << [level |-> "info", event |-> "updating_task",
                         user |-> current_user.id, task |-> task_id],
                        [level |-> "info", event |-> "task_updated",
                         user |-> current_user.id, task |-> task_id] >>]

\* the variant: the row is marked and kept instead of deleted
delete_task_keeping_row(task_id, current_user, ts, seq) ==
    LET task == select_task(ts, task_id) IN
    IF IsNone(task) THEN
        raise(HTTPException(404, "Task not found"), ts, seq, <<>>)
    ELSE IF not_owner(Val(task), current_user) THEN
        raise(HTTPException(403, "Not authorized to delete this task"), ts, seq,
               << authorization_failed(current_user, "delete", task_id, Val(task)) >>)
    ELSE
        [response |-> JSONResponse(204, [kind |-> "empty"]),
         tasks |-> (ts \ {Val(task)}) \cup {[Val(task) EXCEPT !.is_completed = TRUE]},
         task_seq |-> seq,
         log |-> << [level |-> "info", event |-> "deleting_task",
                     user |-> current_user.id, task |-> task_id],
                    [level |-> "info", event |-> "task_deleted",
                     user |-> current_user.id, task |-> task_id] >>]

delete_task(task_id, current_user, ts, seq) ==
    LET task == select_task(ts, task_id) IN
    IF IsNone(task) THEN
        raise(HTTPException(404, "Task not found"), ts, seq, <<>>)
    ELSE IF not_owner(Val(task), current_user) THEN
        raise(HTTPException(403, "Not authorized to delete this task"), ts, seq,
               << authorization_failed(current_user, "delete", task_id, Val(task)) >>)
    ELSE
        [response |-> JSONResponse(204, [kind |-> "empty"]),
         tasks |-> ts \ {Val(task)},
         task_seq |-> seq,
         log |-> << [level |-> "info", event |-> "deleting_task",
                     user |-> current_user.id, task |-> task_id],
                    [level |-> "info", event |-> "task_deleted",
                     user |-> current_user.id, task |-> task_id] >>]

\* POST /tasks hands create_task the body parsed as TaskCreate.  The variant
\* takes the owner from the body when the body names one.
post_tasks_trusting_body(body, current_user, ts, seq, t) ==
    create_task(TaskCreate(body),
                IF IsNone(body.user_id) THEN current_user
                ELSE [current_user EXCEPT !.id = Val(body.user_id)],
                ts, seq, t)

post_tasks(body, current_user, ts, seq, t) ==
    create_task(TaskCreate(body), current_user, ts, seq, t)

\* PUT /tasks/{task_id} hands update_task the body parsed as TaskUpdate.  The
\* variant also assigns user_id when the body names one.
put_task_trusting_body(task_id, body, current_user, ts, seq, t) ==
    LET r == update_task(task_id, TaskUpdate(body), current_user, ts, seq, t) IN
    IF r.response.status_code = 200 /\ ~IsNone(body.user_id)
    THEN [r EXCEPT !.tasks = { IF x.id = task_id
                               THEN [x EXCEPT !.user_id = Val(body.user_id)]
                               ELSE x : x \in r.tasks }]
    ELSE r

put_task(task_id, body, current_user, ts, seq, t) ==
    update_task(task_id, TaskUpdate(body), current_user, ts, seq, t)

\* update_task and delete_task step by step.  Each handler gives control to
\* other requests at its awaits: the select (tasks.py 146, 205), the commit
\* (180, 229) and, for an update, the refresh (181).  The session of a request
\* (database.py 27-30) takes no row lock and runs at the isolation level of the
\* server, so a statement sees the rows as committed when it runs.

\* the columns an UPDATE can set
TaskColumns == {"title", "description", "is_completed"}

\* session.add(task); session.commit() of update_task: the flush emits
\* UPDATE tasks SET <the attributes whose value differs from the one loaded>
\* WHERE id = <id>.  updated_at is always among them (utcnow() is later than
\* the value loaded).  An UPDATE that matches no row raises StaleDataError and
\* the table is left as it was.  The variant writes the object back as a row
\* when the row is gone.
commit_update_upsert(ts, loaded, task) ==
    [ok |-> TRUE, tasks |-> { x \in ts : x.id # loaded.id } \cup {task}]

commit_update(ts, loaded, task) ==
    LET row == select_task(ts, loaded.id) IN
    IF IsNone(row)
    THEN [ok |-> FALSE, exc |-> [kind |-> "StaleDataError"], tasks |-> ts]
    ELSE LET written == [c \in DOMAIN task |->
                            IF c = "updated_at" THEN task[c]
                            ELSE IF c \in TaskColumns /\ task[c] # loaded[c] THEN task[c]
                            ELSE Val(row)[c]]
         IN  [ok |-> TRUE, tasks |-> (ts \ {Val(row)}) \cup {written}]

\* session.refresh(task): the row is read again; a row that is gone raises
\* InvalidRequestError
refresh(ts, task) ==
    LET row == select_task(ts, task.id) IN
    IF IsNone(row)
    THEN [ok |-> FALSE, exc |-> [kind |-> "InvalidRequestError"]]
    ELSE [ok |-> TRUE, task |-> Val(row)]

\* session.delete(task); session.commit() of delete_task: DELETE FROM tasks
\* WHERE id = <id>.  A DELETE that matches no row is a warning of the ORM, not
\* an exception.
commit_delete(ts, loaded) == { x \in ts : x.id # loaded.id }

-----------------------------------------------------------------------------
(* api/auth.py                                                              *)

select_user_by_email(us, email) == scalar_one_or_none({ u \in us : u.email = email })

\* the variant: the id put into the claims as a number
issue_token_native_id(user, t) ==
    create_access_token([sub |-> IntSub(user.id)], None, t)

issue_token(user, t) == create_access_token([sub |-> StrSub(str(user.id))], None, t)

register(user_data, us, seq, t) ==
    LET existing_user == select_user_by_email(us, user_data.email)
        attempt == [level |-> "info", event |-> "registration_attempt",
                    email |-> user_data.email]
    IN
    IF ~IsNone(existing_user) THEN
        [response |-> handle_exception(HTTPException(400, "Email already registered")),
         users |-> us, user_seq |-> seq,
         log |-> << attempt,
                    [level |-> "warning", event |-> "registration_failed",
                     email |-> user_data.email] >>]
    ELSE
        LET new_user == User(seq + 1, user_data.email,
                             hash_password(user_data.password), t)
        IN  [response |-> JSONResponse(201, AuthResponse(issue_token(new_user, t), new_user)),
             users |-> us \cup {new_user}, user_seq |-> seq + 1,
             log |-> << attempt,
                        [level |-> "info", event |-> "user_registered",
                         email |-> new_user.email, user |-> new_user.id] >>]

\* the variant: an email that is not on file reported as such
login_revealing(credentials, us, seq, t) ==
    LET user == select_user_by_email(us, credentials.email)
        attempt == [level |-> "info", event |-> "login_attempt",
                    email |-> credentials.email]
    IN
    IF IsNone(user) THEN
        [response |-> handle_exception(HTTPException(401, "User not found")),
         users |-> us, user_seq |-> seq,
         log |-> << attempt,
                    [level |-> "warning", event |-> "login_failed",
                     email |-> credentials.email] >>]
    ELSE IF ~verify_password(credentials.password, Val(user).hashed_password) THEN
        [response |-> handle_exception(HTTPException(401, "Incorrect email or password")),
         users |-> us, user_seq |-> seq,
         log |-> << attempt,
                    [level |-> "warning", event |-> "login_failed",
                     email |-> credentials.email] >>]
    ELSE
        [response |-> JSONResponse(200, AuthResponse(issue_token(Val(user), t), Val(user))),
         users |-> us, user_seq |-> seq,
         log |-> << attempt,
                    [level |-> "info", event |-> "user_logged_in",
                     email |-> Val(user).email, user |-> Val(user).id] >>]

login(credentials, us, seq, t) ==
    LET user == select_user_by_email(us, credentials.email)
        attempt == [level |-> "info", event |-> "login_attempt",
                    email |-> credentials.email]
    IN
    IF IsNone(user) \/ ~verify_password(credentials.password, Val(user).hashed_password) THEN
        [response |-> handle_exception(HTTPException(401, "Incorrect email or password")),
         users |-> us, user_seq |-> seq,
         log |-> << attempt,
                    [level |-> "warning", event |-> "login_failed",
                     email |-> credentials.email] >>]
    ELSE
        [response |-> JSONResponse(200, AuthResponse(issue_token(Val(user), t), Val(user))),
         users |-> us, user_seq |-> seq,
         log |-> << attempt,
                    [level |-> "info", event |-> "user_logged_in",
                     email |-> Val(user).email, user |-> Val(user).id] >>]

logout ==
    JSONResponse(200, [kind |-> "message",
        message |-> "Successfully logged out. Please remove the token from client storage."])

-----------------------------------------------------------------------------
(* The requests the model sends.                                            *)

RawEmails == { <<"a", "@", "x">>, <<" ", "B", "@", "X", " ">> }

\* the emails that can be on file: at most one user each
Emails == { sanitize_email(e) : e \in RawEmails }

Bearer(token) == Some([scheme |-> "Bearer", credentials |-> Some(token)])

\* a token as the application issues it for user id n at time t
TokenFor(n, t) == create_access_token([sub |-> StrSub(str(n))], None, t)

\* a token signed with the configured secret and algorithm
Signed(sub, exp) == jwt_encode([sub |-> sub, exp |-> exp], JWT_SECRET, JWT_ALGORITHM)

\* tokens as the application issues them at time 0, one per id the users table
\* can hold (one user per email)
GoodTokens == { TokenFor(n, 0) : n \in 1..Cardinality(Emails) }

\* correctly signed tokens whose expiry the clock passes; the second carries
\* the subject as a number, as the tests of the repository build it
ExpiringTokens ==
    { Signed(StrSub("2"), Some(0)), Signed(IntSub(1), Some(0)) }

\* tokens the configured secret and algorithm did not sign, a string that is
\* no JWT, and correctly signed tokens without a usable subject
BadTokens ==
    { GarbageToken,
      jwt_encode([sub |-> StrSub("1"), exp |-> Some(JWT_EXPIRATION_HOURS)],
                 "wrong_secret", JWT_ALGORITHM),
      jwt_encode([sub |-> StrSub("1"), exp |-> Some(0)], JWT_SECRET, "HS512"),
      Signed(NoSub, Some(JWT_EXPIRATION_HOURS)),
      Signed(StrSub("abc"), Some(JWT_EXPIRATION_HOURS)) }

\* the tokens presented under SpecTok: user 1 holds an issued token, user 2 one
\* that expires at time 0
Tokens == { TokenFor(1, 0) } \cup ExpiringTokens \cup BadTokens

\* Authorization headers: absent, another scheme, a bearer token
Credentials ==
    { None, Some([scheme |-> "Basic", credentials |-> Some(TokenFor(1, 0))]) }
        \cup { Bearer(k) : k \in Tokens }

\* the headers of clients that hold a token the application issued
CoreCredentials == { Bearer(k) : k \in GoodTokens }

\* the emails sent under SpecReg: the second and third differ from the first
\* only in case and surrounding whitespace
RegEmails ==
    { <<"a", "@", "x">>, <<" ", "A", "@", "X">>, <<"A", "@", "x", " ">>,
      <<" ", "B", "@", "X", " ">> }

\* the instants at which requests arrive under SpecSession: a token issued at
\* 0 is at its expiry at the third and past it at the fourth
SessionInstants == { 0, JWT_EXPIRATION_HOURS, JWT_EXPIRATION_HOURS + 1 }


Passwords == { "alicepassword123", "bobpassword456" }

RegisterPasswords == { "alicepassword123" }

\* JSON bodies of POST /tasks; user_id is a key the schema does not declare
CreateBodies ==
    { [title |-> "t1", description |-> None, user_id |-> Some(1)],
      [title |-> "t1", description |-> None, user_id |-> Some(2)] }

TokCreateBodies == { [title |-> "t1", description |-> None, user_id |-> None] }

\* JSON bodies of PUT /tasks/{id}
UpdateBodies ==
    { [title |-> Some("t2"), description |-> None, is_completed |-> None,
       user_id |-> Some(1)],
      [title |-> None, description |-> Some("d2"), is_completed |-> Some(TRUE),
       user_id |-> Some(2)] }

\* the subjects and lifetimes tokens are issued with under SpecIssue: no
\* lifetime, and lifetimes from one unit in the past up to the default
Subjects == { StrSub(str(n)) : n \in 1..Cardinality(Emails) }

Ttls == { None } \cup { Some(d) : d \in (-1)..JWT_EXPIRATION_HOURS }

\* the path segments sent for {task_id} under SpecPath: the ids the sequence
\* can give and a string that is no integer
TaskPaths == { str(i) : i \in 1..MaxTokTasks } \cup { "1 OR 1=1" }

\* the headers sent under SpecPath: issued tokens (refused with 401 while their
\* user is not registered), none, and a token whose subject is no number
PathCredentials ==
    CoreCredentials \cup { None, Bearer(Signed(StrSub("abc"), Some(JWT_EXPIRATION_HOURS))) }

\* under SpecRace every update sends a new title
RaceUpdateBodies ==
    { [title |-> Some("t2"), description |-> None, is_completed |-> None,
       user_id |-> None] }

\* under SpecTok an update sends the title the task already has
TokUpdateBodies ==
    { [title |-> Some("t1"), description |-> None, is_completed |-> None,
       user_id |-> None] }

-----------------------------------------------------------------------------
(* The state machine.                                                       *)

NoRequest == [op |-> "none"]

NoResponse == [status_code |-> 0, content |-> [kind |-> "none"]]

Init ==
    /\ users = {}
    /\ user_seq = 0
    /\ tasks = {}
    /\ task_seq = 0
    /\ now = 0
    /\ request = NoRequest
    /\ response = NoResponse
    /\ log = <<>>
    /\ issued = {}
    /\ inflight = {}

\* what general_exception_handler prints for an exception that is not an
\* HTTPException
exception_log(exc) ==
    IF exc.kind \in {"HTTPException", "RequestValidationError"} THEN <<>>
    ELSE << [level |-> "print", event |-> "unexpected_error", type |-> exc.kind] >>

\* the record of a request to a protected endpoint: what was sent, when, and
\* how the Depends(get_current_user) of the endpoint resolved it
Protected(op, authorization, auth) ==
    [op |-> op, authorization |-> authorization, at |-> now,
     current_user |-> IF auth.ok THEN Some(auth.user.id) ELSE None,
     decoded |-> auth.decoded, looked_up |-> auth.looked_up]

\* the dependency raised: the handler body does not run
Reject(req, auth) ==
    /\ request' = req
    /\ response' = handle_exception(auth.exc)
    /\ log' = auth.log \o exception_log(auth.exc)
    /\ UNCHANGED <<users, user_seq, tasks, task_seq, now, issued, inflight>>

\* the handler ran and gave r
Answer(req, auth, r) ==
    /\ request' = req
    /\ response' = r.response
    /\ tasks' = r.tasks
    /\ task_seq' = r.task_seq
    /\ log' = auth.log \o r.log
    /\ UNCHANGED <<users, user_seq, now, issued, inflight>>

\* GET /tasks
GetTasks(creds) ==
    \E authorization \in creds :
        LET auth == get_current_user(authorization, users, now)
            req == Protected("get_tasks", authorization, auth)
        IN  IF auth.ok
            THEN \E r \in get_tasks(auth.user, tasks, task_seq) : Answer(req, auth, r)
            ELSE Reject(req, auth)

\* POST /tasks; at most max tasks are ever created
CreateTask(creds, bodies, max) ==
    \E authorization \in creds, body \in bodies :
        LET auth == get_current_user(authorization, users, now)
            req == Protected("create_task", authorization, auth) @@ [body |-> body]
        IN  IF auth.ok
            THEN /\ task_seq < max
                 /\ Answer(req, auth,
                        post_tasks(body, auth.user, tasks, task_seq, now))
            ELSE Reject(req, auth)

\* GET /tasks/{task_id}
GetTask(creds, ids) ==
    \E authorization \in creds, task_id \in ids :
        LET auth == get_current_user(authorization, users, now)
            req == Protected("get_task", authorization, auth) @@ [task_id |-> task_id]
        IN  IF auth.ok
            THEN Answer(req, auth, get_task(task_id, auth.user, tasks, task_seq))
            ELSE Reject(req, auth)

\* PUT /tasks/{task_id}
UpdateTask(creds, ids, bodies) ==
    \E authorization \in creds, task_id \in ids, body \in bodies :
        LET auth == get_current_user(authorization, users, now)
            req == Protected("update_task", authorization, auth)
                       @@ [task_id |-> task_id, body |-> body]
        IN  IF auth.ok
            THEN Answer(req, auth,
                    put_task(task_id, body, auth.user, tasks, task_seq, now))
            ELSE Reject(req, auth)

\* DELETE /tasks/{task_id}
DeleteTask(creds, ids) ==
    \E authorization \in creds, task_id \in ids :
        LET auth == get_current_user(authorization, users, now)
            req == Protected("delete_task", authorization, auth) @@ [task_id |-> task_id]
        IN  IF auth.ok
            THEN Answer(req, auth, delete_task(task_id, auth.user, tasks, task_seq))
            ELSE Reject(req, auth)

\* a request to /tasks/{task_id} as it is recorded: with the path segment as
\* sent and, when the segment is an integer, the task_id the handler is given
AtPath(op, authorization, auth, path) ==
    LET p == task_id_param(path)
        req == Protected(op, authorization, auth) @@ [path |-> path]
    IN  IF p.ok THEN req @@ [task_id |-> p.value] ELSE req

\* the path segment is not an integer: the validation error is raised without
\* the handler body having run
Invalid(req, auth, exc) ==
    /\ request' = req
    /\ response' = handle_exception(exc)
    /\ log' = auth.log \o exception_log(exc)
    /\ UNCHANGED <<users, user_seq, tasks, task_seq, now, issued, inflight>>

\* GET, PUT, DELETE /tasks/{task_id} with the path segment as sent.  The
\* dependencies of the endpoint are solved before its path parameter is
\* reported: a credential that get_current_user refuses is answered as such
\* whatever the segment.
GetTaskAt(creds, paths) ==
    \E authorization \in creds, path \in paths :
        LET auth == get_current_user(authorization, users, now)
            req == AtPath("get_task", authorization, auth, path)
            p == task_id_param(path)
        IN  IF ~auth.ok THEN Reject(req, auth)
            ELSE IF ~p.ok THEN Invalid(req, auth, p.exc)
            ELSE Answer(req, auth, get_task(p.value, auth.user, tasks, task_seq))

UpdateTaskAt(creds, paths, bodies) ==
    \E authorization \in creds, path \in paths, body \in bodies :
        LET auth == get_current_user(authorization, users, now)
            req == AtPath("update_task", authorization, auth, path) @@ [body |-> body]
            p == task_id_param(path)
        IN  IF ~auth.ok THEN Reject(req, auth)
            ELSE IF ~p.ok THEN Invalid(req, auth, p.exc)
            ELSE Answer(req, auth,
                    put_task(p.value, body, auth.user, tasks, task_seq, now))

DeleteTaskAt(creds, paths) ==
    \E authorization \in creds, path \in paths :
        LET auth == get_current_user(authorization, users, now)
            req == AtPath("delete_task", authorization, auth, path)
            p == task_id_param(path)
        IN  IF ~auth.ok THEN Reject(req, auth)
            ELSE IF ~p.ok THEN Invalid(req, auth, p.exc)
            ELSE Answer(req, auth, delete_task(p.value, auth.user, tasks, task_seq))

\* the token an AuthResponse hands to the client, with the user it names
access_tokens(resp) ==
    IF resp.content.kind = "auth"
    THEN { [token |-> resp.content.access_token, user |-> resp.content.user.id] }
    ELSE {}

AnswerAuth(req, r) ==
    /\ request' = req
    /\ response' = r.response
    /\ users' = r.users
    /\ user_seq' = r.user_seq
    /\ log' = r.log
    /\ issued' = issued \cup access_tokens(r.response)
    /\ UNCHANGED <<tasks, task_seq, now, inflight>>

\* POST /auth/register
Register(emails, passwords) ==
    \E email \in emails, password \in passwords :
        AnswerAuth([op |-> "register", email |-> email, password |-> password, at |-> now],
                   register(UserRegister(email, password), users, user_seq, now))

\* session.add(new_user); session.commit() against the users table, whose
\* email column is declared unique: the INSERT of a second row with an email
\* on file raises IntegrityError and the table is left as it was.  The variant
\* is the column without the constraint.
insert_user_unconstrained(us, new_user) ==
    [ok |-> TRUE, users |-> us \cup {new_user}]

insert_user(us, new_user) ==
    IF \E u \in us : u.email = new_user.email
    THEN [ok |-> FALSE, exc |-> [kind |-> "IntegrityError"], users |-> us]
    ELSE [ok |-> TRUE, users |-> us \cup {new_user}]

\* register from its email check on (auth.py 48-68), run against the table as
\* it is when the handler resumes
register_commit(user_data, us, seq, t) ==
    LET new_user == User(seq + 1, user_data.email,
                         hash_password(user_data.password), t)
        ins == insert_user(us, new_user)
    IN  IF ~ins.ok THEN
            [response |-> handle_exception(ins.exc),
             users |-> ins.users, user_seq |-> seq,
             log |-> exception_log(ins.exc)]
        ELSE
            [response |-> JSONResponse(201, AuthResponse(issue_token(new_user, t), new_user)),
             users |-> ins.users, user_seq |-> seq + 1,
             log |-> << [level |-> "info", event |-> "user_registered",
                         email |-> new_user.email, user |-> new_user.id] >>]

\* POST /auth/register arrives and runs up to its email check (auth.py 35-46):
\* with the email on file the handler raises and the request is over; otherwise
\* the handler is suspended at an await with its check passed, and other
\* requests run.  At most max requests are suspended at once, and they are
\* told apart by what they sent.
RegisterCheck(emails, passwords, max) ==
    \E email \in emails, password \in passwords :
        LET user_data == UserRegister(email, password)
            req == [op |-> "register", email |-> email, password |-> password,
                    at |-> now, resumed |-> FALSE]
        IN  IF ~IsNone(select_user_by_email(users, user_data.email))
            THEN /\ AnswerAuth(req, register(user_data, users, user_seq, now))
            ELSE /\ Cardinality(inflight) < max
                 /\ [email |-> email, password |-> password] \notin inflight
                 /\ inflight' = inflight \cup {[email |-> email, password |-> password]}
                 /\ request' = req
                 /\ response' = NoResponse
                 /\ log' = << [level |-> "info", event |-> "registration_attempt",
                               email |-> user_data.email] >>
                 /\ UNCHANGED <<users, user_seq, tasks, task_seq, now, issued>>

\* a suspended register resumes: it adds the user and commits
RegisterCommit ==
    \E f \in inflight :
        LET r == register_commit(UserRegister(f.email, f.password), users, user_seq, now)
        IN  /\ inflight' = inflight \ {f}
            /\ request' = [op |-> "register", email |-> f.email, password |-> f.password,
                           at |-> now, resumed |-> TRUE]
            /\ response' = r.response
            /\ users' = r.users
            /\ user_seq' = r.user_seq
            /\ log' = r.log
            /\ issued' = issued \cup access_tokens(r.response)
            /\ UNCHANGED <<tasks, task_seq, now>>

\* PUT /tasks/{task_id} arrives and runs up to its commit (tasks.py 145-179):
\* a request that fails its fetch or its ownership check is answered; one that
\* passes is suspended at the await of the commit, holding the row it loaded
\* and the object it has assigned the new values to.  At most max requests are
\* suspended at once, and they are told apart by what they hold.
UpdateCheck(creds, ids, bodies, max) ==
    \E authorization \in creds, task_id \in ids, body \in bodies :
        LET auth == get_current_user(authorization, users, now)
            req == Protected("update_task", authorization, auth)
                       @@ [task_id |-> task_id, body |-> body]
        IN  IF ~auth.ok THEN Reject(req, auth)
            ELSE LET r == put_task(task_id, body, auth.user, tasks, task_seq, now) IN
                 IF r.response.status_code # 200 THEN Answer(req, auth, r)
                 ELSE LET f == [req |-> req, phase |-> "checked",
                                loaded |-> Val(select_task(tasks, task_id)),
                                task |-> CHOOSE x \in r.tasks : x.id = task_id]
                      IN  /\ Cardinality(inflight) < max
                          /\ \A g \in inflight : g.req # req
                          /\ inflight' = inflight \cup {f}
                          /\ request' = req
                          /\ response' = NoResponse
                          /\ log' = auth.log \o << r.log[1] >>
                          /\ UNCHANGED <<users, user_seq, tasks, task_seq, now, issued>>

\* a suspended update resumes at its commit (tasks.py 180): the UPDATE runs
\* against the table as it is now
UpdateCommit ==
    \E f \in inflight :
        /\ f.req.op = "update_task"
        /\ f.phase = "checked"
        /\ LET c == commit_update(tasks, f.loaded, f.task) IN
           /\ request' = f.req
           /\ tasks' = c.tasks
           /\ IF c.ok
              THEN /\ inflight' = (inflight \ {f}) \cup {[f EXCEPT !.phase = "committed"]}
                   /\ response' = NoResponse
                   /\ log' = <<>>
              ELSE /\ inflight' = inflight \ {f}
                   /\ response' = handle_exception(c.exc)
                   /\ log' = exception_log(c.exc)
           /\ UNCHANGED <<users, user_seq, task_seq, now, issued>>

\* a committed update resumes at its refresh and answers (tasks.py 181-185)
UpdateRefresh ==
    \E f \in inflight :
        /\ f.req.op = "update_task"
        /\ f.phase = "committed"
        /\ LET r == refresh(tasks, f.task) IN
           /\ request' = f.req
           /\ inflight' = inflight \ {f}
           /\ IF r.ok
              THEN /\ response' = JSONResponse(200,
                                      [kind |-> "task", task |-> TaskResponse(r.task)])
                   /\ log' = << [level |-> "info", event |-> "task_updated",
                                 user |-> f.task.user_id, task |-> f.task.id] >>
              ELSE /\ response' = handle_exception(r.exc)
                   /\ log' = exception_log(r.exc)
           /\ UNCHANGED <<users, user_seq, tasks, task_seq, now, issued>>

\* DELETE /tasks/{task_id} arrives and runs up to its commit (tasks.py
\* 204-228)
DeleteCheck(creds, ids, max) ==
    \E authorization \in creds, task_id \in ids :
        LET auth == get_current_user(authorization, users, now)
            req == Protected("delete_task", authorization, auth) @@ [task_id |-> task_id]
        IN  IF ~auth.ok THEN Reject(req, auth)
            ELSE LET r == delete_task(task_id, auth.user, tasks, task_seq) IN
                 IF r.response.status_code # 204 THEN Answer(req, auth, r)
                 ELSE LET f == [req |-> req, phase |-> "checked",
                                loaded |-> Val(select_task(tasks, task_id)),
                                task |-> Val(select_task(tasks, task_id))]
                      IN  /\ Cardinality(inflight) < max
                          /\ \A g \in inflight : g.req # req
                          /\ inflight' = inflight \cup {f}
                          /\ request' = req
                          /\ response' = NoResponse
                          /\ log' = auth.log \o << r.log[1] >>
                          /\ UNCHANGED <<users, user_seq, tasks, task_seq, now, issued>>

\* a suspended delete resumes at its commit and answers (tasks.py 229-231)
DeleteCommit ==
    \E f \in inflight :
        /\ f.req.op = "delete_task"
        /\ f.phase = "checked"
        /\ request' = f.req
        /\ tasks' = commit_delete(tasks, f.loaded)
        /\ inflight' = inflight \ {f}
        /\ response' = JSONResponse(204, [kind |-> "empty"])
        /\ log' = << [level |-> "info", event |-> "task_deleted",
                      user |-> f.task.user_id, task |-> f.task.id] >>
        /\ UNCHANGED <<users, user_seq, task_seq, now, issued>>

\* a call create_access_token(data={"sub": ...}, expires_delta=...) at the
\* time of the clock; the response is the token returned
IssueToken(subs, ttls) ==
    \E sub \in subs, expires_delta \in ttls :
        /\ request' = [op |-> "create_access_token", sub |-> sub,
                       expires_delta |-> expires_delta, at |-> now]
        /\ response' = [status_code |-> 0,
                        content |-> [kind |-> "token",
                                     access_token |->
                                         create_access_token([sub |-> sub], expires_delta, now)]]
        /\ log' = <<>>
        /\ UNCHANGED <<users, user_seq, tasks, task_seq, now, issued, inflight>>

\* POST /auth/login
Login(emails, passwords) ==
    \E email \in emails, password \in passwords :
        AnswerAuth([op |-> "login", email |-> email, password |-> password, at |-> now],
                   login(UserLogin(email, password), users, user_seq, now))

\* POST /auth/logout
Logout ==
    /\ request' = [op |-> "logout", at |-> now]
    /\ response' = logout
    /\ log' = <<>>
    /\ UNCHANGED <<users, user_seq, tasks, task_seq, now, issued, inflight>>

\* the clock advances; no request is handled by this step
Tick ==
    /\ now < MaxTime
    /\ now' = now + 1
    /\ request' = NoRequest
    /\ response' = NoResponse
    /\ log' = <<>>
    /\ UNCHANGED <<users, user_seq, tasks, task_seq, issued, inflight>>

\* time passes until the next of the given instants; no request is handled by
\* this step
Wait(instants) ==
    /\ \E t \in instants :
          /\ t > now
          /\ \A i \in instants : i > now => t <= i
          /\ now' = t
    /\ request' = NoRequest
    /\ response' = NoResponse
    /\ log' = <<>>
    /\ UNCHANGED <<users, user_seq, tasks, task_seq, issued, inflight>>

\* the headers of the clients: each holds a token that register or login
\* returned
HeldCredentials == { Bearer(i.token) : i \in issued }

\* Clients holding issued tokens work on the tasks at one instant; the ids they
\* ask for are the ids the sequence can give (an id is absent before its
\* create and after its delete).
Next ==
    \/ Register(RawEmails, RegisterPasswords)
    \/ Login(RawEmails, Passwords)
    \/ Logout
    \/ GetTasks(CoreCredentials)
    \/ CreateTask(CoreCredentials, CreateBodies, MaxTasks)
    \/ GetTask(CoreCredentials, 1..MaxTasks)
    \/ UpdateTask(CoreCredentials, 1..MaxTasks, UpdateBodies)
    \/ DeleteTask(CoreCredentials, 1..MaxTasks)

Spec == Init /\ [][Next]_vars

\* Any credential, over time, against a store of at most MaxTokTasks tasks.
\* Updates and deletes are sent with every credential but the long-lived
\* issued token (those of its holder are Next's): the user who updates and
\* deletes here holds the token that expires.
NextTok ==
    \/ Register(RawEmails, RegisterPasswords)
    \/ GetTasks(Credentials)
    \/ CreateTask(Credentials, TokCreateBodies, MaxTokTasks)
    \/ GetTask(Credentials, 1..MaxTokTasks)
    \/ UpdateTask(Credentials \ CoreCredentials, 1..MaxTokTasks, TokUpdateBodies)
    \/ DeleteTask(Credentials \ CoreCredentials, 1..MaxTokTasks)
    \/ Tick

SpecTok == Init /\ [][NextTok]_vars

\* Sessions: users register, log in and out at any of the instants and present
\* the tokens they were given, up to and past the tokens' expiry.
NextSession ==
    \/ Register(RawEmails, RegisterPasswords)
    \/ Login(RawEmails, RegisterPasswords)
    \/ Logout
    \/ GetTasks(HeldCredentials)
    \/ CreateTask(HeldCredentials, TokCreateBodies, MaxTokTasks)
    \/ GetTask(HeldCredentials, 1..MaxTokTasks)
    \/ DeleteTask(HeldCredentials, 1..MaxTokTasks)
    \/ Wait(SessionInstants)

SpecSession == Init /\ [][NextSession]_vars

\* Registration and login with emails that differ in case and whitespace, the
\* register requests interleaving at their awaits.
NextReg ==
    \/ RegisterCheck(RegEmails, RegisterPasswords, MaxRegistrations)
    \/ RegisterCommit
    \/ Login(RegEmails, Passwords)

SpecReg == Init /\ [][NextReg]_vars

\* Two users work on the same tasks, their updates and deletes interleaving
\* at their awaits.
NextRace ==
    \/ Register(RawEmails, RegisterPasswords)
    \/ CreateTask(CoreCredentials, TokCreateBodies, MaxTokTasks)
    \/ GetTask(CoreCredentials, 1..MaxTokTasks)
    \/ UpdateCheck(CoreCredentials, 1..MaxTokTasks, RaceUpdateBodies, MaxInflight)
    \/ UpdateCommit
    \/ UpdateRefresh
    \/ DeleteCheck(CoreCredentials, 1..MaxTokTasks, MaxInflight)
    \/ DeleteCommit

SpecRace == Init /\ [][NextRace]_vars

\* Every endpoint, with task ids as they come in the path and credentials that
\* identity resolution accepts and refuses.
NextPath ==
    \/ Register(RawEmails, RegisterPasswords)
    \/ Login(RawEmails, Passwords)
    \/ Logout
    \/ GetTasks(PathCredentials)
    \/ CreateTask(PathCredentials, TokCreateBodies, MaxTokTasks)
    \/ GetTaskAt(PathCredentials, TaskPaths)
    \/ UpdateTaskAt(PathCredentials, TaskPaths, RaceUpdateBodies)
    \/ DeleteTaskAt(PathCredentials, TaskPaths)

SpecPath == Init /\ [][NextPath]_vars

\* Token issuance on its own, at every instant of the clock.
NextIssue ==
    \/ IssueToken(Subjects, Ttls)
    \/ Tick

SpecIssue == Init /\ [][NextIssue]_vars

-----------------------------------------------------------------------------
(* Properties.  tasks, users are the tables before the step and request',   *)
(* response' the request the step handled and its response.                 *)

TaskOps == {"get_task", "update_task", "delete_task"}

ProtectedOps == TaskOps \cup {"get_tasks", "create_task"}

ForbiddenMessages ==
    { "Not authorized to access this task", "Not authorized to update this task",
      "Not authorized to delete this task" }

ErrorBody(status_code, message) ==
    [kind |-> "error",
     error |-> [type |-> "http_error", status_code |-> status_code, message |-> message]]

\* the step handled a get, update or delete of task t by an authenticated
\* user other than t's owner
CrossOwner(t) ==
    /\ request'.op \in TaskOps
    /\ ~IsNone(request'.current_user)
    /\ request'.task_id = t.id
    /\ Val(request'.current_user) # t.user_id

\* C1: a get, update or delete of a task by an authenticated user who is not
\* its owner is answered 403, and the body is the fixed error body of that
\* status (one of three generic messages), so it carries no field of the task.
C1_Isolation ==
    [][\A t \in tasks :
          CrossOwner(t) =>
              /\ response'.status_code = 403
              /\ \E m \in ForbiddenMessages : response'.content = ErrorBody(403, m)]_vars

C1_Witness ==
    /\ request.op = "get_task"
    /\ response.status_code = 403
    /\ \E t \in tasks : /\ t.id = request.task_id
                        /\ Some(t.user_id) # request.current_user
                        /\ \E u \in users : u.id = t.user_id

\* C2: an update or delete of a task by an authenticated user who is not its
\* owner leaves the task in the table with every field as it was.
C2_RejectedMutationNoEffect ==
    [][\A t \in tasks :
          (CrossOwner(t) /\ request'.op \in {"update_task", "delete_task"})
              => t \in tasks']_vars

C2_Witness ==
    /\ request.op = "update_task"
    /\ ~IsNone(request.body.title)
    /\ ~IsNone(request.current_user)
    /\ \E t \in tasks : /\ t.id = request.task_id
                        /\ t.user_id # Val(request.current_user)
                        /\ t.title # Val(request.body.title)

\* the rows of the table that belong to user id n, as the API renders them
OwnedBy(ts, n) == { TaskResponse(t) : t \in { x \in ts : x.user_id = n } }

Range(q) == { q[i] : i \in 1..Len(q) }

\* C3: a list request by an authenticated user is answered 200 with exactly
\* the stored tasks whose user_id is the caller's id, each once, and total is
\* the number of tasks returned.
C3_ListScoping ==
    [][request'.op = "get_tasks" /\ ~IsNone(request'.current_user) =>
          /\ response'.status_code = 200
          /\ Range(response'.content.tasks) = OwnedBy(tasks, Val(request'.current_user))
          /\ Len(response'.content.tasks)
                = Cardinality(OwnedBy(tasks, Val(request'.current_user)))
          /\ response'.content.total = Len(response'.content.tasks)]_vars

C3_Witness ==
    /\ request.op = "get_tasks"
    /\ response.status_code = 200
    /\ response.content.total = 1
    /\ \E t \in tasks : Some(t.user_id) # request.current_user
    /\ \E t \in tasks : Some(t.user_id) = request.current_user

\* whether the task with this id is in every list user id n can be given
ListedFor(ts, seq, n, id) ==
    \A r \in get_tasks([id |-> n], ts, seq) :
        \E i \in 1..Len(r.response.content.tasks) : r.response.content.tasks[i].id = id

\* C4: a create request authenticated as A whose body names another user B as
\* user_id is answered 201, adds exactly one task, stored and returned with
\* user_id = A; that task is in A's list and in no list of B.
C4_CreateStampsCaller ==
    [][(/\ request'.op = "create_task"
        /\ ~IsNone(request'.current_user)
        /\ ~IsNone(request'.body.user_id)
        /\ request'.body.user_id # request'.current_user) =>
          LET A == Val(request'.current_user)
              B == Val(request'.body.user_id)
          IN  /\ response'.status_code = 201
              /\ response'.content.task.user_id = A
              /\ \E new \in tasks' :
                    /\ new \notin tasks
                    /\ tasks' = tasks \cup {new}
                    /\ new.user_id = A
                    /\ new.id = response'.content.task.id
                    /\ ListedFor(tasks', task_seq', A, new.id)
                    /\ ~ListedFor(tasks', task_seq', B, new.id)
                    /\ \A r \in get_tasks([id |-> B], tasks', task_seq') :
                          \A i \in 1..Len(r.response.content.tasks) :
                              r.response.content.tasks[i].id # new.id]_vars

C4_Witness ==
    /\ request.op = "create_task"
    /\ response.status_code = 201
    /\ ~IsNone(request.body.user_id)
    /\ request.body.user_id # request.current_user
    /\ \E u \in users : Some(u.id) = request.body.user_id

\* C5: a task enters the table only through a create request, with a fresh id
\* and the user_id of the user authenticated for that request; and a task that
\* stays in the table keeps its user_id, whatever the request.
C5_OwnerImmutable ==
    [][\A t2 \in tasks' :
          IF \E t \in tasks : t.id = t2.id
          THEN \A t \in tasks : t.id = t2.id => t2.user_id = t.user_id
          ELSE /\ request'.op = "create_task"
               /\ request'.current_user = Some(t2.user_id)
               /\ t2.id > task_seq
               /\ task_seq' = t2.id]_vars

C5_Witness ==
    /\ request.op = "update_task"
    /\ response.status_code = 200
    /\ ~IsNone(request.body.user_id)
    /\ request.body.user_id # request.current_user
    /\ \E t \in tasks : t.id = request.task_id /\ Some(t.user_id) = request.current_user

\* the three-outcome decision for user id n asking for task id
Decision(ts, id, n) ==
    IF \A t \in ts : t.id # id THEN "NotFound"
    ELSE IF \E t \in ts : t.id = id /\ t.user_id # n THEN "Forbid"
    ELSE "Allow"

AllowStatus(op) == IF op = "delete_task" THEN 204 ELSE 200

\* C6: get, update and delete by an authenticated user answer 404 when no task
\* has the id, else 403 when the task's user_id is not the caller's id, else
\* the operation's success status; so the ids answered with success are
\* exactly the ids of the caller's own tasks and every other id gets 403 or 404.
C6_ThreeOutcomes ==
    [][request'.op \in TaskOps /\ ~IsNone(request'.current_user) =>
          LET d == Decision(tasks, request'.task_id, Val(request'.current_user)) IN
          /\ d = "NotFound" => response'.status_code = 404
          /\ d = "Forbid" => response'.status_code = 403
          /\ d = "Allow" => response'.status_code = AllowStatus(request'.op)
          /\ response'.status_code \in {200, 204}
                <=> \E t \in tasks : /\ t.id = request'.task_id
                                     /\ t.user_id = Val(request'.current_user)
          /\ response'.status_code \in {200, 204, 403, 404}]_vars

C6_Witness ==
    /\ request.op = "get_task"
    /\ response.status_code = 404
    /\ ~IsNone(request.current_user)
    /\ tasks # {}
    /\ \A t \in tasks : Some(t.user_id) # request.current_user

-----------------------------------------------------------------------------
(* Token properties, under SpecTok.                                         *)

HasBearer(authorization) ==
    /\ ~IsNone(authorization)
    /\ Val(authorization).scheme = "Bearer"
    /\ ~IsNone(Val(authorization).credentials)

TokenOf(authorization) == Val(Val(authorization).credentials)

CorrectlySigned(k) ==
    k.form = "jws" /\ k.key = JWT_SECRET /\ k.alg = JWT_ALGORITHM

\* what is wrong with token k at time t, if anything
FailureClass(k, t) ==
    IF k.form # "jws" THEN "malformed"
    ELSE IF ~CorrectlySigned(k) THEN "signature"
    ELSE IF ~IsNone(k.claims.exp) /\ Val(k.claims.exp) < t THEN "expired"
    ELSE IF k.claims.sub.typ = "int" THEN "claims"
    ELSE "none"

Failure(status_code, message) == JSONResponse(status_code, ErrorBody(status_code, message))

\* the step handled a request to a protected endpoint that carried a bearer token
BearerStep ==
    request'.op \in ProtectedOps /\ HasBearer(request'.authorization)

C8_WrongKeyOrAlgRejected ==
    [][(BearerStep /\ TokenOf(request'.authorization).form = "jws"
            /\ ~CorrectlySigned(TokenOf(request'.authorization))) =>
          /\ response' = Failure(401, "Invalid token")
          /\ IsNone(request'.current_user)
          /\ UNCHANGED store]_vars

C8_Witness ==
    /\ request.op = "delete_task"
    /\ HasBearer(request.authorization)
    /\ TokenOf(request.authorization).key = JWT_SECRET
    /\ TokenOf(request.authorization).alg # JWT_ALGORITHM
    /\ TokenOf(request.authorization).claims.exp = Some(now)
    /\ response.status_code = 401
    /\ \E t \in tasks : t.id = request.task_id /\ StrSub(str(t.user_id)) =
                            TokenOf(request.authorization).claims.sub

ParseFailures == {"expired", "malformed", "signature"}

\* C9 as claimed: an expired token, a malformed token and a token whose
\* signature does not verify give three different failures: the failure given
\* for a token of one of these kinds differs from the failure any token of
\* another of these kinds is given at the same time.
C9_ThreeKindsDistinct ==
    (/\ request.op \in ProtectedOps
     /\ HasBearer(request.authorization)
     /\ FailureClass(TokenOf(request.authorization), request.at) \in ParseFailures) =>
        \A k2 \in Tokens :
            (/\ FailureClass(k2, request.at) \in ParseFailures
             /\ FailureClass(k2, request.at)
                    # FailureClass(TokenOf(request.authorization), request.at))
                => handle_exception(decode_token(k2, request.at).exc) # response

\* C9, amended: an expired token is answered 401 'Token has expired'; a
\* malformed token and a token whose signature does not verify are both
\* answered 401 'Invalid token' and logged with the same record, so the expired
\* kind can be told from the other two and those two cannot be told apart.
C9_ExpiredVersusInvalid ==
    [][BearerStep =>
          LET c == FailureClass(TokenOf(request'.authorization), now) IN
          /\ c = "expired" =>
                /\ response' = Failure(401, "Token has expired")
                /\ log' = << [level |-> "warning", event |-> "token_expired"] >>
          /\ c \in {"malformed", "signature"} =>
                /\ response' = Failure(401, "Invalid token")
                /\ log' = << [level |-> "warning", event |-> "token_invalid",
                              type |-> "JWTError"] >>
          /\ Failure(401, "Token has expired") # Failure(401, "Invalid token")]_vars

C9_Witness ==
    /\ request.op = "get_tasks"
    /\ HasBearer(request.authorization)
    /\ TokenOf(request.authorization) = GarbageToken
    /\ response = Failure(401, "Invalid token")
    /\ users # {}

ValidTokenStep ==
    /\ BearerStep
    /\ FailureClass(TokenOf(request'.authorization), now) = "none"

SubjectOf(authorization) == TokenOf(authorization).claims.sub

\* C11: a correctly signed, unexpired token with no subject is answered 401
\* 'Could not validate credentials' by every protected endpoint: the users
\* table is not queried, no user is resolved and nothing is written.
C11_MissingSubjectRejected ==
    [][(ValidTokenStep /\ SubjectOf(request'.authorization).typ = "absent") =>
          /\ response' = Failure(401, "Could not validate credentials")
          /\ IsNone(request'.current_user)
          /\ ~request'.looked_up
          /\ UNCHANGED store]_vars

C11_Witness ==
    /\ request.op = "get_task"
    /\ HasBearer(request.authorization)
    /\ CorrectlySigned(TokenOf(request.authorization))
    /\ SubjectOf(request.authorization) = NoSub
    /\ Val(TokenOf(request.authorization).claims.exp) >= now
    /\ response.status_code = 401
    /\ users # {}
    /\ \E t \in tasks : t.id = request.task_id

\* C12 as claimed: a correctly signed, unexpired token whose subject is a
\* string that is not a user identifier is answered with a 401 credential
\* failure and with no other kind of failure.
C12_UnparseableSubject401 ==
    [][(/\ ValidTokenStep
        /\ SubjectOf(request'.authorization).typ = "str"
        /\ ~IsIntLiteral(SubjectOf(request'.authorization).text)) =>
          /\ response'.status_code = 401
          /\ response'.content.error.type = "http_error"]_vars

\* the token's subject is a string that int() parses
NamesUser(authorization, id) ==
    /\ SubjectOf(authorization).typ = "str"
    /\ IsIntLiteral(SubjectOf(authorization).text)
    /\ int(SubjectOf(authorization).text) = id

\* C13: every protected request with a valid token naming user id queries
\* the users table as it is at that request: the request is handled as user id
\* exactly when a user with that id is on file, and is answered 401 'User not
\* found', with nothing written, when none is.
C13_ResolvedPerRequest ==
    [][(/\ ValidTokenStep
        /\ SubjectOf(request'.authorization).typ = "str"
        /\ IsIntLiteral(SubjectOf(request'.authorization).text)) =>
          LET id == int(SubjectOf(request'.authorization).text) IN
          /\ request'.looked_up
          /\ (\E u \in users : u.id = id) => request'.current_user = Some(id)
          /\ ~(\E u \in users : u.id = id) =>
                /\ response' = Failure(401, "User not found")
                /\ IsNone(request'.current_user)
                /\ UNCHANGED store]_vars

C13_Witness ==
    /\ request.op = "create_task"
    /\ HasBearer(request.authorization)
    /\ FailureClass(TokenOf(request.authorization), now) = "none"
    /\ NamesUser(request.authorization, 2)
    /\ users # {}
    /\ \A u \in users : u.id # 2
    /\ response = Failure(401, "User not found")
    /\ request.looked_up

-----------------------------------------------------------------------------
(* Session properties, under SpecSession.                                   *)

\* C14: a token that register or login returned for a user still on file is
\* accepted, as that user, by every protected request made no later than the
\* token's expiry, whatever happened since it was issued; a logout changes
\* neither the tables nor the tokens held, and a further register or login
\* takes no token away.
C14_NoRevocation ==
    [][/\ \A i \in issued :
            (/\ request'.op \in ProtectedOps
             /\ request'.authorization = Bearer(i.token)
             /\ \E u \in users : u.id = i.user
             /\ now <= Val(i.token.claims.exp)) =>
                /\ request'.current_user = Some(i.user)
                /\ response'.status_code # 401
       /\ request'.op = "logout" => UNCHANGED <<store, issued>>
       /\ issued \subseteq issued']_vars

\* a token at the instant of its expiry, after a later token was issued to the
\* same user, is accepted
C14_Witness ==
    /\ request.op = "get_tasks"
    /\ \E i, j \in issued :
          /\ request.authorization = Bearer(i.token)
          /\ j.user = i.user
          /\ Val(j.token.claims.exp) > Val(i.token.claims.exp)
          /\ now = Val(i.token.claims.exp)
          /\ request.current_user = Some(i.user)
    /\ response.status_code = 200

AuthOps == {"register", "login"}

\* C18: the token a successful register or login returns carries as subject
\* the id, rendered as a string, of the user on file under the request's
\* normalised email, and get_current_user resolves it to exactly that user; so
\* does every token issued so far, while it is unexpired and its user on file.
C18_SubjectRoundTrip ==
    [][/\ (request'.op \in AuthOps /\ response'.content.kind = "auth") =>
            LET k == response'.content.access_token
                u == CHOOSE x \in users' : x.email = sanitize_email(request'.email)
                auth == get_current_user(Bearer(k), users', now')
            IN  /\ \E x \in users' : x.email = sanitize_email(request'.email)
                /\ response'.content.user = UserResponse(u)
                /\ k.claims.sub = StrSub(str(u.id))
                /\ int(k.claims.sub.text) = u.id
                /\ auth.ok
                /\ auth.user = u
       /\ \A i \in issued' :
            (/\ now' <= Val(i.token.claims.exp)
             /\ \E x \in users' : x.id = i.user) =>
                LET auth == get_current_user(Bearer(i.token), users', now')
                IN  auth.ok /\ auth.user.id = i.user]_vars

C18_Witness ==
    /\ request.op = "login"
    /\ response.status_code = 200
    /\ response.content.kind = "auth"
    /\ response.content.user.id = 2
    /\ response.content.access_token.claims.sub = StrSub("2")
    /\ Cardinality(users) = 2
    /\ now = JWT_EXPIRATION_HOURS

-----------------------------------------------------------------------------
(* Registration and login properties, under SpecReg.                        *)

\* C15: in every reachable state no two users on file have emails that are
\* equal after trimming and lower-casing, and no two have the same id,
\* however the register requests interleave.
C15_EmailUnique ==
    \A u, v \in users :
        (sanitize_email(u.email) = sanitize_email(v.email) \/ u.id = v.id) => u = v

\* two requests for one normalised email were in flight together: one is on
\* file, the other was refused at its commit
C15_Witness ==
    /\ request.op = "register"
    /\ request.resumed
    /\ response.status_code = 500
    /\ \E u \in users : /\ u.email = sanitize_email(request.email)
                        /\ u.email # request.email
    /\ inflight = {}

\* the email of the request, normalised, is on file with user u
OnFile(email, u) == u \in users /\ u.email = sanitize_email(email)

\* C16: a register request arriving with an email that, trimmed and
\* lower-cased, is the email of a user on file is answered 400 'Email already
\* registered'; no user is added, no id consumed, no token issued and the
\* users table is left as it was.
C16_EmailTaken ==
    [][(/\ request'.op = "register"
        /\ ~request'.resumed
        /\ \E u \in users : OnFile(request'.email, u)) =>
          /\ response' = Failure(400, "Email already registered")
          /\ users' = users
          /\ user_seq' = user_seq
          /\ issued' = issued
          /\ inflight' = inflight]_vars

C16_Witness ==
    /\ request.op = "register"
    /\ ~request.resumed
    /\ response = Failure(400, "Email already registered")
    /\ \E u \in users : OnFile(request.email, u) /\ u.email # request.email
    /\ Cardinality(users) = 1
    /\ issued # {}

\* the login with these credentials fails against the users on file
LoginFails(email, password) ==
    \/ ~\E u \in users : OnFile(email, u)
    \/ \E u \in users : OnFile(email, u) /\ ~verify_password(password, u.hashed_password)

\* C17: a failed login is answered 401 'Incorrect email or password' and
\* issues no token, and the answer is the same for every failing login against
\* the same users: one with an email that is not on file and one with an email
\* on file and a wrong password get identical responses.
C17_LoginFailureUniform ==
    [][(request'.op = "login" /\ LoginFails(request'.email, request'.password)) =>
          /\ response' = Failure(401, "Incorrect email or password")
          /\ issued' = issued
          /\ UNCHANGED store
          /\ \A e \in RegEmails, pw \in Passwords :
                LoginFails(e, pw) =>
                    login(UserLogin(e, pw), users, user_seq, now).response = response']_vars

\* a wrong password for an email on file, while another email is not on file
C17_Witness ==
    /\ request.op = "login"
    /\ response.status_code = 401
    /\ \E u \in users :
          /\ OnFile(request.email, u)
          /\ ~verify_password(request.password, u.hashed_password)
    /\ \E e \in RegEmails : ~\E u \in users : OnFile(e, u)

-----------------------------------------------------------------------------
(* Logging properties.                                                      *)

VerbOf(op) ==
    CASE op = "get_task" -> "access"
      [] op = "update_task" -> "update"
      [] op = "delete_task" -> "delete"

ForbiddenMessage(op) ==
    CASE op = "get_task" -> "Not authorized to access this task"
      [] op = "update_task" -> "Not authorized to update this task"
      [] op = "delete_task" -> "Not authorized to delete this task"

\* C19: a get, update or delete of task t by an authenticated user who is not
\* its owner emits exactly one log record, a warning that names the acting
\* user's id, the task id and the id of the task's owner, and its response is
\* 403 with the fixed message of the operation: the same body whoever owns the
\* task, with no id in it.
C19_ForbiddenLogged ==
    [][\A t \in tasks :
          CrossOwner(t) =>
            /\ log' = << [level |-> "warning", event |-> "authorization_failed",
                          verb |-> VerbOf(request'.op),
                          user |-> Val(request'.current_user),
                          task |-> t.id,
                          owner |-> t.user_id] >>
            /\ response' = Failure(403, ForbiddenMessage(request'.op))]_vars

C19_Witness ==
    /\ request.op = "delete_task"
    /\ request.current_user = Some(2)
    /\ \E t \in tasks : t.id = request.task_id /\ t.user_id = 1
    /\ Len(log) = 1
    /\ log[1].event = "authorization_failed"
    /\ log[1].user = 2
    /\ log[1].owner = 1
    /\ response.status_code = 403

\* C20 as claimed: every 404 of get, update or delete emits a log record that
\* names the caller and the task asked for, and every 401 of identity
\* resolution emits a log record.
C20_EveryFailureLogged ==
    [][/\ (request'.op \in TaskOps /\ response'.status_code = 404) =>
            \E i \in DOMAIN log' :
                /\ {"user", "task"} \subseteq DOMAIN log'[i]
                /\ log'[i].user = Val(request'.current_user)
                /\ log'[i].task = request'.task_id
       /\ (request'.op \in ProtectedOps /\ response'.status_code = 401) =>
            log' # <<>>]_vars

\* the update and delete requests suspended between their ownership check and
\* their commit
Checked == { f \in inflight : f.phase = "checked" }

\* C21 as claimed: fetch, ownership check and mutation of an update or delete
\* are one atomic step: while a request is between its ownership check and its
\* commit, no step of another request removes the task it checked.
C21_CheckThenActAtomic ==
    [][\A f \in Checked :
          (f \in inflight' /\ ~IsNone(select_task(tasks, f.loaded.id)))
              => ~IsNone(select_task(tasks', f.loaded.id))]_vars

BadIdStep ==
    /\ request'.op \in TaskOps
    /\ ~IsIntLiteral(request'.path)

\* what validation_exception_handler answers for a task id that is no integer
InvalidTaskId ==
    [status_code |-> 422,
     content |-> [kind |-> "error",
                  error |-> [type |-> "validation_error", status_code |-> 422,
                             message |-> "Validation failed",
                             details |-> << [field |-> <<"path", "task_id">>,
                                             message |-> "Input should be a valid integer",
                                             type |-> "int_parsing"] >>]]]

\* C23 as claimed: a get, update or delete whose task id is not a well-formed
\* integer is answered 422, never 200 or 500, and the store is unchanged.
C23_BadIdIs422 ==
    [][BadIdStep => (response'.status_code = 422 /\ store' = store)]_vars

\* C23 amended: a get, update or delete whose task id is not a well-formed
\* integer leaves the store unchanged and is never answered 200, and its
\* answer does not depend on the tasks in the table.  Sent with a credential
\* that identity resolution accepts it is answered 422, the validation failure
\* naming task_id; sent with one that identity resolution refuses it is
\* answered as identity resolution answers (403, 401, or 500 for a subject
\* that is no number), before the id is looked at.
C23_BadIdRejected ==
    [][BadIdStep =>
          LET auth == get_current_user(request'.authorization, users, now) IN
          /\ store' = store
          /\ response'.status_code # 200
          /\ IF auth.ok
             THEN response' = InvalidTaskId /\ log' = auth.log
             ELSE /\ response' = handle_exception(auth.exc)
                  /\ response'.status_code \in {401, 403, 500}]_vars

\* user 1 asks for '1 OR 1=1' while task 1 is in the table and is answered 422
C23_Witness ==
    /\ request.op = "get_task"
    /\ request.path = "1 OR 1=1"
    /\ request.current_user = Some(1)
    /\ response.status_code = 422
    /\ \E t \in tasks : t.id = 1

\* the top-level fields of the JSON body of a response
BodyFields(resp) == DOMAIN resp.content \ {"kind"}

\* C24 as claimed: the JSON body of every 401, 403 and 404 the application
\* answers has a top-level field 'detail' that holds the failure message.
C24_DetailAtTopLevel ==
    [][response'.status_code \in {401, 403, 404} =>
          /\ "detail" \in BodyFields(response')
          /\ response'.content.detail \in
                ForbiddenMessages \cup
                { "Not authenticated", "Token has expired",
                  "Could not validate credentials", "User not found",
                  "Task not found", "Incorrect email or password" }]_vars

\* C25 as claimed: a token issued at time t with lifetime ttl expires at
\* t + ttl, for every ttl, zero included; a token issued with no ttl expires
\* at t + JWT_EXPIRATION_HOURS.
C25_ExpiryIsIssuePlusTtl ==
    [][request'.op = "create_access_token" =>
          LET token == response'.content.access_token
              ttl == request'.expires_delta
          IN  token.claims.exp =
                  Some(request'.at + (IF IsNone(ttl) THEN JWT_EXPIRATION_HOURS
                                      ELSE Val(ttl)))]_vars

\* the row of the table ts with the given id
RowOf(ts, id) == CHOOSE x \in ts : x.id = id

\* C26: a successful update changes only the row of the task asked for, and in
\* it only the fields among title, description and is_completed that the body
\* supplies with a value that is not null, plus updated_at: the other fields
\* keep their value, id, user_id and created_at included, and every other row
\* is left as it was.  A successful delete removes the row of the task asked
\* for and no other.  Neither touches the users or the sequences.
C26_Frame ==
    [][/\ (request'.op = "update_task" /\ response'.status_code = 200) =>
            LET id == request'.task_id
                body == request'.body
                old == RowOf(tasks, id)
                new == RowOf(tasks', id)
            IN  /\ \E x \in tasks : x.id = id
                /\ tasks' \ {new} = tasks \ {old}
                /\ new.id = old.id
                /\ new.user_id = old.user_id
                /\ new.created_at = old.created_at
                /\ new.title = IF IsNone(body.title) THEN old.title ELSE Val(body.title)
                /\ new.description = IF IsNone(body.description) THEN old.description
                                     ELSE body.description
                /\ new.is_completed = IF IsNone(body.is_completed) THEN old.is_completed
                                      ELSE Val(body.is_completed)
                /\ new.updated_at = request'.at
                /\ DOMAIN new = DOMAIN old
                /\ <<users', user_seq', task_seq'>> = <<users, user_seq, task_seq>>
       /\ (request'.op = "delete_task" /\ response'.status_code = 204) =>
            /\ \E x \in tasks : x.id = request'.task_id
            /\ tasks' = tasks \ {RowOf(tasks, request'.task_id)}
            /\ <<users', user_seq', task_seq'>> = <<users, user_seq, task_seq>>]_vars

\* an update that supplied description and is_completed only has answered, the
\* task keeps the title an earlier update gave it, and another task is in the
\* table
C26_Witness ==
    /\ request.op = "update_task"
    /\ response.status_code = 200
    /\ IsNone(request.body.title)
    /\ \E t, u \in tasks :
          /\ t.id = request.task_id
          /\ t.title = "t2"
          /\ t.description = Some("d2")
          /\ t.is_completed
          /\ u.id # t.id

\* the step handled a request to a protected endpoint that identity
\* resolution accepted
Authenticated ==
    request'.op \in ProtectedOps /\ ~IsNone(request'.current_user)

\* the ids that were given to a task that has since been deleted (the
\* sequence never gives an id twice)
Deleted(ts, seq) == { id \in 1..seq : \A x \in ts : x.id # id }

\* C27: the owner's lifecycle.  A create by an authenticated user returns 201
\* with the new task.  On a task in the table its owner's get returns 200 with
\* the task, the owner's update returns 200 with the values sent, and the
\* owner's delete returns 204 and removes the task.  Once a task is deleted it
\* stays deleted: every later get, update or delete of its id by any
\* authenticated user returns 404 and changes nothing, and no list contains
\* the id.
C27_Lifecycle ==
    [][/\ (Authenticated /\ request'.op = "create_task") =>
            /\ response'.status_code = 201
            /\ \E t \in tasks' \ tasks :
                  /\ t.user_id = Val(request'.current_user)
                  /\ response'.content.task = TaskResponse(t)
       /\ \A t \in tasks :
            (/\ Authenticated
             /\ request'.op \in TaskOps
             /\ request'.task_id = t.id
             /\ Val(request'.current_user) = t.user_id) =>
                CASE request'.op = "get_task" ->
                        response' = JSONResponse(200,
                                        [kind |-> "task", task |-> TaskResponse(t)])
                  [] request'.op = "update_task" ->
                        /\ response'.status_code = 200
                        /\ response'.content.task = TaskResponse(RowOf(tasks', t.id))
                        /\ ~IsNone(request'.body.title) =>
                              response'.content.task.title = Val(request'.body.title)
                        /\ ~IsNone(request'.body.is_completed) =>
                              response'.content.task.is_completed
                                  = Val(request'.body.is_completed)
                  [] request'.op = "delete_task" ->
                        /\ response'.status_code = 204
                        /\ t.id \in Deleted(tasks', task_seq')
       /\ \A id \in Deleted(tasks, task_seq) :
            /\ id \in Deleted(tasks', task_seq')
            /\ (Authenticated /\ request'.op \in TaskOps /\ request'.task_id = id) =>
                  /\ response' = Failure(404, "Task not found")
                  /\ tasks' = tasks
            /\ (Authenticated /\ request'.op = "get_tasks") =>
                  \A i \in DOMAIN response'.content.tasks :
                      response'.content.tasks[i].id # id]_vars

\* task 1 was created and deleted, task 2 is in the table, and an update of
\* task 1 has been answered 404
C27_Witness ==
    /\ request.op = "update_task"
    /\ request.task_id = 1
    /\ ~IsNone(request.current_user)
    /\ response.status_code = 404
    /\ 1 \in Deleted(tasks, task_seq)
    /\ \E t \in tasks : t.id = 2

\* the step handled a request that failed with 401, 403, 404 or 422, or a
\* list, get, login or logout that succeeded
FailureOrRead ==
    \/ response'.status_code \in {401, 403, 404, 422}
    \/ /\ request'.op \in {"get_tasks", "get_task", "login", "logout"}
       /\ response'.status_code = 200

\* C28: a request that ends in 401, 403, 404 or 422, and a successful list,
\* get, login or logout, leave the stored users and the stored tasks (ids,
\* owners and field values) as they were before the request, and the
\* sequences with them.
C28_StateUnchanged ==
    [][FailureOrRead => store' = store]_vars

\* user 2's update of user 1's task has been answered 403 and the task has
\* the title it was created with
C28_Witness ==
    /\ request.op = "update_task"
    /\ request.current_user = Some(2)
    /\ response.status_code = 403
    /\ \E t \in tasks :
          /\ t.id = request.task_id
          /\ t.user_id = 1
          /\ t.title = "t1"
          /\ t.title # Val(request.body.title)

\* C29 as claimed: of the register requests for one normalised email that all
\* ran their existence check before any of them committed, the first to
\* commit creates the user and is answered 201, and each other one, resuming
\* with the email now on file, is answered 400 'Email already registered'.
C29_LoserGetsEmailTaken ==
    [][(request'.op = "register" /\ request'.resumed) =>
          IF \E u \in users : OnFile(request'.email, u)
          THEN response' = Failure(400, "Email already registered") /\ users' = users
          ELSE response'.status_code = 201 /\ Cardinality(users') = Cardinality(users) + 1]_vars

\* C30: a deleted task is never revived.  An id whose task has been deleted
\* names no row in any later state; an update that loaded the task and passed
\* its ownership check before the delete committed, and commits afterwards,
\* writes nothing and is answered 500.
C30_NeverRevived ==
    [][/\ \A id \in Deleted(tasks, task_seq) : id \in Deleted(tasks', task_seq')
       /\ \A f \in Checked :
            (/\ f.req.op = "update_task"
             /\ request' = f.req
             /\ f \notin inflight'
             /\ f.loaded.id \in Deleted(tasks, task_seq)) =>
                /\ tasks' = tasks
                /\ response'.status_code = 500]_vars

\* the owner's update of task 1 has resumed at its commit after the delete of
\* task 1 committed: its UPDATE matched no row
C30_Witness ==
    /\ request.op = "update_task"
    /\ request.task_id = 1
    /\ response.status_code = 500
    /\ Len(log) = 1
    /\ log[1].type = "StaleDataError"
    /\ 1 \in Deleted(tasks, task_seq)

=============================================================================
